---- MODULE Spec2Model ----
(***************************************************************************)
(* A model of main.py, the Streamlit dashboard script of pos-mvp-ui.       *)
(*                                                                         *)
(* One run of the script is the sequence of steps                          *)
(*   todo (lines 93-103) -> chat (106-215) -> board (218-236)              *)
(*        -> viewer (239-245) -> done                                      *)
(* A chat submission ends the run at st.rerun() (line 215); an uncaught    *)
(* Python exception ends it in "failed".  st.session_state.messages is the *)
(* only value that survives from one run to the next.                      *)
(*                                                                         *)
(* TLA+ strings are ASCII; the emoji of the source are written as tags:    *)
(*   [ok] U+2705   [cal] U+1F4C5   [mail] U+1F4E8   [trophy] U+1F3C6        *)
(*   [books] U+1F4DA   [book] U+1F4D6   [robot] U+1F916   [warn] U+26A0     *)
(*   [clock] U+1F552   [mask] U+1F3AD   [receipt] U+1F9FE   [speech] U+1F4AC *)
(*   [chart] U+1F4CA   [folder] U+1F4C2   [tick] U+0060 (the backquote)     *)
(***************************************************************************)
EXTENDS Integers, Sequences, FiniteSets, TLC

VARIABLES NOTION_DATABASE_ID, NOTION_API_KEY, messages, pc, user_input,
          tasks_df, paei_df, shown, response, agent_reply, error,
          notion_requests, notion_res

vars == <<NOTION_DATABASE_ID, NOTION_API_KEY, messages, pc, user_input,
          tasks_df, paei_df, shown, response, agent_reply, error,
          notion_requests, notion_res>>

(***************************************************************************)
(* Bounds of the model.                                                    *)
(***************************************************************************)
\* longest chat history the model builds
MaxMessages == 3
\* most pages in one Notion answer, in the specification of the task panels
MaxPages == 2
\* most pages in one Notion answer, in the specification with the chat
MaxFetched == 1

(***************************************************************************)
(* Python values.  A JSON value is a tagged record; a dict keeps its       *)
(* items in insertion order, as a sequence of <<key, value>> pairs.        *)
(***************************************************************************)
None == [k |-> "null"]
JNum(n) == [k |-> "num", n |-> n]
JStr(s) == [k |-> "str", s |-> s]
JList(l) == [k |-> "list", l |-> l]
JDict(d) == [k |-> "dict", d |-> d]
EmptyDict == JDict(<<>>)

IsStr(v) == v.k = "str"
IsDict(v) == v.k = "dict"
IsList(v) == v.k = "list"

\* The result of a Python expression: a value, or the exception it raises.
Ok(v) == [raised |-> "", val |-> v]
Raise(e) == [raised |-> e]
Raised(r) == r.raised # ""

\* bool(v)
Truthy(v) ==
  CASE v.k = "null" -> FALSE
    [] v.k = "num" -> v.n # 0
    [] v.k = "str" -> v.s # ""
    [] v.k = "list" -> v.l # <<>>
    [] v.k = "dict" -> v.d # <<>>

\* key in d, for a dict d
HasKey(d, key) == \E i \in 1..Len(d.d) : d.d[i][1] = key

\* d.get(key, default): AttributeError unless d is a dict
Get(d, key, default) ==
  IF ~IsDict(d) THEN Raise("AttributeError")
  ELSE IF HasKey(d, key)
       THEN Ok(d.d[CHOOSE i \in 1..Len(d.d) : d.d[i][1] = key][2])
       ELSE Ok(default)

\* sub in s, for strings
IsSubstring(sub, s) ==
  \E i \in 1..(Len(s) - Len(sub) + 1) : SubSeq(s, i, i + Len(sub) - 1) = sub

\* "intent" in response
Contains(v, key) ==
  CASE v.k = "dict" -> Ok(HasKey(v, key))
    [] v.k = "list" -> Ok(\E i \in 1..Len(v.l) : v.l[i] = JStr(key))
    [] v.k = "str" -> Ok(IsSubstring(key, v.s))
    [] OTHER -> Raise("TypeError")

\* response["intent"]
Index(v, key) ==
  IF IsDict(v)
  THEN IF HasKey(v, key) THEN Get(v, key, None) ELSE Raise("KeyError")
  ELSE Raise("TypeError")

RECURSIVE Join(_, _)
\* sep.join(strs)
Join(sep, strs) ==
  IF strs = <<>> THEN ""
  ELSE IF Len(strs) = 1 THEN strs[1]
  ELSE strs[1] \o sep \o Join(sep, Tail(strs))

RECURSIVE PyStr(_)
RECURSIVE PyRepr(_)
\* str(v), as an f-string formats v
PyStr(v) == IF v.k = "str" THEN v.s ELSE PyRepr(v)
\* repr(v)
PyRepr(v) ==
  CASE v.k = "null" -> "None"
    [] v.k = "num" -> ToString(v.n)
    [] v.k = "str" -> "'" \o v.s \o "'"
    [] v.k = "list" ->
         "[" \o Join(", ", [i \in 1..Len(v.l) |-> PyRepr(v.l[i])]) \o "]"
    [] v.k = "dict" ->
         "{" \o Join(", ", [i \in 1..Len(v.d) |->
                   "'" \o v.d[i][1] \o "': " \o PyRepr(v.d[i][2])]) \o "}"

\* the items a for loop over v visits: TypeError for a value that is not iterable
Iter(v) ==
  CASE v.k = "list" -> Ok(v.l)
    [] v.k = "dict" -> Ok([i \in 1..Len(v.d) |-> JStr(v.d[i][1])])
    [] v.k = "str" -> Ok([i \in 1..Len(v.s) |-> JStr(SubSeq(v.s, i, i))])
    [] OTHER -> Raise("TypeError")

(***************************************************************************)
(* json.loads, on the texts the model's agent answers hold.  Every other   *)
(* text of the model is no JSON document and raises JSONDecodeError.       *)
(***************************************************************************)
CalendarJson == "{\"calendar_link\": \"http://cal/1\"}"
BrevoJson == "{\"messageId\": \"<m1>\"}"
FindingsJson == "{\"key_findings\": [\"f\"]}"
\* json.dumps(FindingsJson) and json.dumps("plain text")
FindingsJsonTwice == "\"{\\\"key_findings\\\": [\\\"f\\\"]}\""
PlainJson == "\"plain text\""

json_loads(text) ==
  CASE text = "[]" -> Ok(JList(<<>>))
    [] text = "[\"a\"]" -> Ok(JList(<<JStr("a")>>))
    [] text = "{}" -> Ok(EmptyDict)
    [] text = "null" -> Ok(None)
    [] text = "0" -> Ok(JNum(0))
    [] text = "5" -> Ok(JNum(5))
    [] text = PlainJson -> Ok(JStr("plain text"))
    [] text = CalendarJson ->
         Ok(JDict(<< <<"calendar_link", JStr("http://cal/1")>> >>))
    [] text = BrevoJson -> Ok(JDict(<< <<"messageId", JStr("<m1>")>> >>))
    [] text = FindingsJson ->
         Ok(JDict(<< <<"key_findings", JList(<<JStr("f")>>)>> >>))
    [] text = FindingsJsonTwice -> Ok(JStr(FindingsJson))
    [] OTHER -> Raise("JSONDecodeError")

(***************************************************************************)
(* The chat handler's reply, lines 118-212.  Each operator gives Ok(text)  *)
(* or the exception that leaves the handler.                               *)
(***************************************************************************)
\* the idiom of lines 129-133, 143-147, 149-153:
\*   if isinstance(v, str): try v = json.loads(v) except: v = {wrapkey: v}
DecodeOrWrap(v, wrapkey) ==
  IF IsStr(v)
  THEN LET r == json_loads(v.s)
       IN IF Raised(r) THEN JDict(<< <<wrapkey, v>> >>) ELSE r.val
  ELSE v

\* a or b or ""
FirstTruthy(a, b) == IF Truthy(a) THEN a ELSE IF Truthy(b) THEN b ELSE JStr("")

CalendarDefault == "Calendar event created successfully."
EmailDefault == "Email sent successfully."

\* lines 127-139
CalendarReply(resp) ==
  LET cal_resp == DecodeOrWrap(Get(resp, "cal_resp", EmptyDict).val, "message")
      a == Get(cal_resp, "calendar_link", None)
      b == Get(cal_resp, "html_link", None)
      link == FirstTruthy(a.val, b.val)
      msg == Get(cal_resp, "message", JStr(CalendarDefault)).val
  IN IF Raised(a) THEN a
     ELSE IF Truthy(link)
          THEN Ok("[cal] Task scheduled successfully. [View in Calendar]("
                  \o PyStr(link) \o ")")
          ELSE Ok("[cal] " \o PyStr(msg))

\* lines 141-159
EmailReply(resp) ==
  LET email_resp == DecodeOrWrap(Get(resp, "email_resp", EmptyDict).val, "message")
      b0 == Get(email_resp, "brevo_response", EmptyDict)
      brevo_data == DecodeOrWrap(b0.val, "messageId")
      link == Get(brevo_data, "messageId", JStr(""))
      msg == Get(email_resp, "message", JStr(EmailDefault)).val
  IN IF Raised(b0) THEN b0
     ELSE IF Raised(link) THEN link
     ELSE IF Truthy(link.val)
          THEN Ok("[mail] Email sent successfully. Message ID: [tick]"
                  \o PyStr(link.val) \o "[tick]")
          ELSE Ok("[mail] " \o PyStr(msg))

\* the longest str(xp_resp) line 163 still shows
MaxXpInfoLen == 120

\* lines 161-166
CompletionReply(resp) ==
  LET xp_info == Get(resp, "xp_resp", JStr("")).val
  IN IF IsDict(xp_info) \/ IsList(xp_info) \/ Len(PyStr(xp_info)) > MaxXpInfoLen
     THEN Ok("[trophy] Task completed. XP awarded!")
     ELSE Ok("[trophy] Task completed. XP awarded! " \o PyStr(xp_info))

\* lines 172-178: a summary that is a string is decoded, and decoded again
\* if the result is a string; when a decoding fails the string held at that
\* moment becomes raw_text
DecodeSummary(research_data) ==
  IF ~IsStr(research_data) THEN research_data
  ELSE LET r1 == json_loads(research_data.s)
       IN IF Raised(r1) THEN JDict(<< <<"raw_text", research_data>> >>)
          ELSE IF ~IsStr(r1.val) THEN r1.val
          ELSE LET r2 == json_loads(r1.val.s)
               IN IF Raised(r2) THEN JDict(<< <<"raw_text", r1.val>> >>)
                  ELSE r2.val

\* lines 186-192: the script runs at module level, where locals() is the
\* module's namespace, so the four assignments take effect
NormalizeField(val) ==
  IF IsStr(val)
  THEN LET r == json_loads(val.s)
       IN IF Raised(r) THEN JList(<<val>>) ELSE r.val
  ELSE val

\* "\n".join([f"- {x}" for x in val])
Bullets(val) ==
  LET it == Iter(val)
  IN IF Raised(it) THEN it
     ELSE Ok(Join("\n", [i \in 1..Len(it.val) |-> "- " \o PyStr(it.val[i])]))

\* one "if val: agent_reply += title + bullets + trailer" of lines 196-203
Section(title, val, trailer) ==
  IF ~Truthy(val) THEN Ok("")
  ELSE LET b == Bullets(val)
       IN IF Raised(b) THEN b ELSE Ok(title \o b.val \o trailer)

NoSummary == "[book] Research completed successfully, but no detailed summary was found."

\* ResearchReply with the raw text tested before the sections
ResearchReplyRawFirst(resp) ==
  LET research_resp == Get(resp, "research_resp", EmptyDict).val
      s0 == Get(research_resp, "summary", EmptyDict)
      research_data == DecodeSummary(s0.val)
      f1 == Get(research_data, "executive_summary", JList(<<>>))
      exec_summary == NormalizeField(f1.val)
      key_findings ==
        NormalizeField(Get(research_data, "key_findings", JList(<<>>)).val)
      sources ==
        NormalizeField(Get(research_data, "notable_sources", JList(<<>>)).val)
      next_steps ==
        NormalizeField(Get(research_data, "recommended_next_steps", JList(<<>>)).val)
      raw_text == Get(research_data, "raw_text", JStr("")).val
      p1 == Section("**Executive Summary:**\n", exec_summary, "\n\n")
      p2 == Section("**Key Findings:**\n", key_findings, "\n\n")
      p3 == Section("**Sources:**\n", sources, "\n\n")
      p4 == Section("**Recommended Next Steps:**\n", next_steps, "")
  IN IF Raised(s0) THEN s0
     ELSE IF Raised(f1) THEN f1
     ELSE IF Truthy(raw_text)
          THEN Ok("[book] **Research Summary:**\n\n" \o PyStr(raw_text))
          ELSE IF Truthy(exec_summary) \/ Truthy(key_findings)
                  \/ Truthy(sources) \/ Truthy(next_steps)
               THEN IF Raised(p1) THEN p1
                    ELSE IF Raised(p2) THEN p2
                    ELSE IF Raised(p3) THEN p3
                    ELSE IF Raised(p4) THEN p4
                    ELSE Ok("[books] **Research Summary:**\n\n"
                            \o p1.val \o p2.val \o p3.val \o p4.val)
               ELSE Ok(NoSummary)

\* lines 168-207
ResearchReply(resp) ==
  LET research_resp == Get(resp, "research_resp", EmptyDict).val
      s0 == Get(research_resp, "summary", EmptyDict)
      research_data == DecodeSummary(s0.val)
      f1 == Get(research_data, "executive_summary", JList(<<>>))
      exec_summary == NormalizeField(f1.val)
      key_findings ==
        NormalizeField(Get(research_data, "key_findings", JList(<<>>)).val)
      sources ==
        NormalizeField(Get(research_data, "notable_sources", JList(<<>>)).val)
      next_steps ==
        NormalizeField(Get(research_data, "recommended_next_steps", JList(<<>>)).val)
      raw_text == Get(research_data, "raw_text", JStr("")).val
      p1 == Section("**Executive Summary:**\n", exec_summary, "\n\n")
      p2 == Section("**Key Findings:**\n", key_findings, "\n\n")
      p3 == Section("**Sources:**\n", sources, "\n\n")
      p4 == Section("**Recommended Next Steps:**\n", next_steps, "")
  IN IF Raised(s0) THEN s0
     ELSE IF Raised(f1) THEN f1
     ELSE IF Truthy(exec_summary) \/ Truthy(key_findings)
             \/ Truthy(sources) \/ Truthy(next_steps)
          THEN IF Raised(p1) THEN p1
               ELSE IF Raised(p2) THEN p2
               ELSE IF Raised(p3) THEN p3
               ELSE IF Raised(p4) THEN p4
               ELSE Ok("[books] **Research Summary:**\n\n"
                       \o p1.val \o p2.val \o p3.val \o p4.val)
          ELSE IF Truthy(raw_text)
               THEN Ok("[book] **Research Summary:**\n\n" \o PyStr(raw_text))
               ELSE Ok(NoSummary)

TaskReply == "[ok] Task allocated in Notion."
DefaultReply == "[robot] Processed successfully."

\* IntentReply without the final else of lines 209-210: agent_reply keeps
\* the "" of line 119
IntentReplyNoDefault(resp) ==
  LET intent == Index(resp, "intent")
  IN IF Raised(intent) THEN intent
     ELSE CASE intent.val = JStr("TASK") -> Ok(TaskReply)
            [] intent.val = JStr("CALENDAR") -> CalendarReply(resp)
            [] intent.val = JStr("EMAIL") -> EmailReply(resp)
            [] intent.val = JStr("COMPLETION") -> CompletionReply(resp)
            [] intent.val = JStr("RESEARCH") -> ResearchReply(resp)
            [] OTHER -> Ok("")

\* lines 122-210: the reply for a response that holds "intent"
IntentReply(resp) ==
  LET intent == Index(resp, "intent")
  IN IF Raised(intent) THEN intent
     ELSE CASE intent.val = JStr("TASK") -> Ok(TaskReply)
            [] intent.val = JStr("CALENDAR") -> CalendarReply(resp)
            [] intent.val = JStr("EMAIL") -> EmailReply(resp)
            [] intent.val = JStr("COMPLETION") -> CompletionReply(resp)
            [] intent.val = JStr("RESEARCH") -> ResearchReply(resp)
            [] OTHER -> Ok(DefaultReply)

\* lines 211-212
ErrorReply(resp) ==
  LET e == Get(resp, "error", JStr("Unknown issue"))
  IN IF Raised(e) THEN e ELSE Ok("[warn] Error: " \o PyStr(e.val))

\* lines 121-212
AgentReply(resp) ==
  LET has == Contains(resp, "intent")
  IN IF Raised(has) THEN has
     ELSE IF has.val THEN IntentReply(resp) ELSE ErrorReply(resp)

\* lines 41-47: the POST of the message either raises (no connection,
\* timeout, a body that is not JSON) or yields the decoded body
call_parent_agent(message, outcome) ==
  IF outcome.exception # ""
  THEN JDict(<< <<"error", JStr(outcome.exception)>> >>)
  ELSE outcome.body

(***************************************************************************)
(* Tables.  A DataFrame is its column names and its rows; a row is a       *)
(* function from column names to cells.                                    *)
(***************************************************************************)
TaskColumns ==
  <<"Task", "PAEI Role", "XP", "Status", "Due Date", "Calendar Link", "Email Link">>

\* pd.DataFrame()
EmptyFrame == [columns |-> <<>>, rows |-> <<>>]

\* pd.DataFrame(tasks), tasks a list of dicts that all hold TaskColumns
DataFrame(tasks) ==
  [columns |-> IF tasks = <<>> THEN <<>> ELSE TaskColumns, rows |-> tasks]

\* df.empty
IsEmpty(df) == Len(df.rows) = 0 \/ Len(df.columns) = 0

HTTP_OK == 200

\* FlattenPage without the guard of line 70: a null select shows as "None"
FlattenPageNoRoleGuard(props) ==
  [c \in {TaskColumns[i] : i \in 1..Len(TaskColumns)} |->
     CASE c = "Task" -> IF props.Task # <<>> THEN props.Task[1] ELSE ""
       [] c = "PAEI Role" -> IF props.Role # None THEN props.Role.name ELSE "None"
       [] c = "XP" -> props.XP
       [] c = "Status" -> IF props.Status # None THEN props.Status.name ELSE ""
       [] c = "Due Date" -> IF props.Due # None THEN props.Due.start ELSE ""
       [] c = "Calendar Link" -> props.Calendar
       [] c = "Email Link" -> props.Email]

\* lines 67-76: one Notion page to one row.  A page is its properties:
\*   Task (the title list of plain_text strings), Role and Status (the select:
\*   None or [name |-> ..]), XP (the number), Due (the date: None or
\*   [start |-> ..]), Calendar and Email (the url: None or a string)
FlattenPage(props) ==
  [c \in {TaskColumns[i] : i \in 1..Len(TaskColumns)} |->
     CASE c = "Task" -> IF props.Task # <<>> THEN props.Task[1] ELSE ""
       [] c = "PAEI Role" -> IF props.Role # None THEN props.Role.name ELSE ""
       [] c = "XP" -> props.XP
       [] c = "Status" -> IF props.Status # None THEN props.Status.name ELSE ""
       [] c = "Due Date" -> IF props.Due # None THEN props.Due.start ELSE ""
       [] c = "Calendar Link" -> props.Calendar
       [] c = "Email Link" -> props.Email]

\* fetch_notion_tasks with "and" for the "or" of line 51
fetch_notion_tasks_and(db, key, answer) ==
  IF db = "" /\ key = ""
  THEN [raised |-> "", val |-> EmptyFrame, requests |-> 0]
  ELSE IF answer.exception # ""
  THEN [raised |-> answer.exception, requests |-> 1]
  ELSE IF answer.status_code # HTTP_OK
  THEN [raised |-> "", val |-> EmptyFrame, requests |-> 1]
  ELSE [raised |-> "",
        val |-> DataFrame([i \in 1..Len(answer.results) |->
                             FlattenPage(answer.results[i])]),
        requests |-> 1]

\* lines 49-77.  answer is what Notion does with the POST: it raises
\* (answer.exception), or answers status_code and, on 200, results.
\* requests counts the POSTs sent.
fetch_notion_tasks(db, key, answer) ==
  IF db = "" \/ key = ""
  THEN [raised |-> "", val |-> EmptyFrame, requests |-> 0]
  ELSE IF answer.exception # ""
  THEN [raised |-> answer.exception, requests |-> 1]
  ELSE IF answer.status_code # HTTP_OK
  THEN [raised |-> "", val |-> EmptyFrame, requests |-> 1]
  ELSE [raised |-> "",
        val |-> DataFrame([i \in 1..Len(answer.results) |->
                             FlattenPage(answer.results[i])]),
        requests |-> 1]

RECURSIVE SumXP(_)
\* the sum of the XP cells of a sequence of rows
SumXP(rows) == IF rows = <<>> THEN 0 ELSE rows[1]["XP"] + SumXP(Tail(rows))

\* line 84: df.groupby("PAEI Role")["XP"].sum(), a series indexed by role
GroupBySum(df) ==
  [r \in {df.rows[i]["PAEI Role"] : i \in 1..Len(df.rows)} |->
     SumXP(SelectSeq(df.rows, LAMBDA row : row["PAEI Role"] = r))]

all_roles == <<"Producer", "Administrator", "Entrepreneur", "Integrator">>

\* line 86: set_index("PAEI Role").reindex(all_roles, fill_value=0).reset_index()
Reindex(series, index, fill_value) ==
  [columns |-> <<"PAEI Role", "XP">>,
   rows |-> [i \in 1..Len(index) |->
               [c \in {"PAEI Role", "XP"} |->
                  IF c = "PAEI Role" THEN index[i]
                  ELSE IF index[i] \in DOMAIN series THEN series[index[i]]
                  ELSE fill_value]]]

\* get_paei_stats with the roles in the sorted order groupby leaves them in
get_paei_stats_sorted(df) ==
  IF IsEmpty(df)
  THEN [columns |-> <<"PAEI Role", "XP">>, rows |-> <<>>]
  ELSE Reindex(GroupBySum(df),
               <<"Administrator", "Entrepreneur", "Integrator", "Producer">>, 0)

\* lines 79-87
get_paei_stats(df) ==
  IF IsEmpty(df)
  THEN [columns |-> <<"PAEI Role", "XP">>, rows |-> <<>>]
  ELSE Reindex(GroupBySum(df), all_roles, 0)

\* line 223: paei_df["XP"].sum()
TotalXP(stats) == SumXP(stats.rows)

(***************************************************************************)
(* What a run puts on the page: a sequence of [kind, text] elements.       *)
(***************************************************************************)
Elem(kind, text) == [kind |-> kind, text |-> text]

NoTasksInfo == "No active tasks found or Notion credentials missing."
NoXpInfo == "No XP data available yet."
NoDataInfo == "No data available to display."

\* lines 26-34
HeaderElems ==
  <<Elem("title", "[robot] Present Operating System (POS)"),
    Elem("caption",
         "All-in-one AI Task Management Dashboard - powered by Notion + Render Agents"),
    Elem("markdown", "Made by Aayush Narwade")>>

RECURSIVE TodoItems(_)
\* lines 98-101: the title, the caption and a divider for each row
TodoItems(rows) ==
  IF rows = <<>> THEN <<>>
  ELSE <<Elem("markdown", "**" \o rows[1]["Task"] \o "**"),
         Elem("caption", "[clock] " \o rows[1]["Due Date"] \o " | [mask] "
                         \o rows[1]["PAEI Role"]),
         Elem("divider", "")>>
       \o TodoItems(Tail(rows))

\* lines 96-103
TodoElems(df) ==
  IF ~IsEmpty(df)
  THEN LET todo_df == SelectSeq(df.rows, LAMBDA row : row["Status"] = "To Do")
       IN TodoItems(todo_df)
  ELSE <<Elem("info", NoTasksInfo)>>

\* lines 107-114: the history, then the input box
ChatElems(msgs) ==
  <<Elem("subheader", "[speech] Chat with POS")>>
  \o [i \in 1..Len(msgs) |->
        Elem(IF msgs[i].role = "user" THEN "chat:user" ELSE "chat:assistant",
             msgs[i].content)]
  \o <<Elem("chat_input", "Type your message...")>>

\* lines 219-236: the metric "[trophy] Total XP Gained" and the bar chart
BoardElems(df) ==
  <<Elem("subheader", "[chart] PAEI Analysis Board")>>
  \o (IF ~IsEmpty(df)
      THEN <<Elem("metric", ToString(TotalXP(get_paei_stats(df))) \o " XP"),
             Elem("chart", "XP Distribution by Role")>>
      ELSE <<Elem("info", NoXpInfo)>>)

\* lines 239-250; the last line is for a run with PORT unset
ViewerElems(df) ==
  <<Elem("markdown", "---"),
    Elem("subheader", "[folder] Notion Database Viewer")>>
  \o (IF ~IsEmpty(df)
      THEN <<Elem("dataframe", ToString(Len(df.rows)) \o " rows")>>
      ELSE <<Elem("info", NoDataInfo)>>)
  \o <<Elem("write", "[ok] Streamlit running on Render port 8501")>>

Shows(text) == \E i \in 1..Len(shown) : shown[i] = Elem("info", text)

(***************************************************************************)
(* The environment: the Notion database and the parent agent.              *)
(***************************************************************************)
Select(name) == [name |-> name]

NoProps ==
  [Task |-> <<>>, Status |-> None, Due |-> None, Calendar |-> None, Email |-> None]
ToDoProps ==
  [Task |-> <<"Write report", "(draft)">>, Status |-> Select("To Do"),
   Due |-> [start |-> "2025-01-31"],
   Calendar |-> JStr("http://cal/1"), Email |-> None]
DoneProps ==
  [Task |-> <<"Ship release">>, Status |-> Select("Done"), Due |-> None,
   Calendar |-> None, Email |-> JStr("http://mail/1")]

Page(shape, role, xp) ==
  [Task |-> shape.Task, Role |-> role, XP |-> xp, Status |-> shape.Status,
   Due |-> shape.Due, Calendar |-> shape.Calendar, Email |-> shape.Email]

\* the pages of the database: every role of all_roles, a role outside it, no
\* role, and two pages of one role
Pages ==
  {Page(NoProps, None, 3),
   Page(ToDoProps, Select("Producer"), 5),
   Page(DoneProps, Select("Producer"), 3),
   Page(ToDoProps, Select("Administrator"), 5),
   Page(DoneProps, Select("Entrepreneur"), 3),
   Page(NoProps, Select("Integrator"), 5),
   Page(DoneProps, Select("Integrator"), 3),
   Page(ToDoProps, Select("Unassigned"), 3)}

\* the pages of the specification with the chat
FewPages == {Page(ToDoProps, Select("Producer"), 5)}

SeqsUpTo(S, n) == UNION {[1..m -> S] : m \in 0..n}

\* no answer from Notion (yet)
NoAnswer == [exception |-> "", status_code |-> 0, results |-> <<>>]

\* what Notion does with a query
NotionAnswers(pages, n) ==
  {[exception |-> "ConnectionError", status_code |-> 0, results |-> <<>>],
   [exception |-> "", status_code |-> 401, results |-> <<>>],
   [exception |-> "", status_code |-> 500, results |-> <<>>]}
  \cup {[exception |-> "", status_code |-> HTTP_OK, results |-> r] :
          r \in SeqsUpTo(pages, n)}

Inputs == {"add a task", "research tla"}

D1(k, v) == JDict(<< <<k, v>> >>)
D2(k1, v1, k2, v2) == JDict(<< <<k1, v1>>, <<k2, v2>> >>)
Intent(name) == D1("intent", JStr(name))
IntentWith(name, k, v) == D2("intent", JStr(name), k, v)

LongText ==
  "xxxxxxxxxxxxxxxxxxxxxxxxxxxxxxxxxxxxxxxxxxxxxxxxxxxxxxxxxxxxxxxxxxxxxxxxxxxxxxxxxxxxxxxxxxxxxxxxxxxxxxxxxxxxxxxxxxxxxxxxx"

\* bodies that are JSON but no object
OtherBodies ==
  {None, JNum(5), JList(<<>>), JList(<<JStr("intent")>>),
   JStr("hello"), JStr("no intent found")}

NoIntentBodies ==
  {EmptyDict, D1("error", JStr("agent down")), D1("error", None),
   D1("detail", JStr("Not Found"))}

PlainBodies ==
  {Intent("TASK"), IntentWith("TASK", "error", JStr("agent down")),
   Intent("CHAT"), IntentWith("CHAT", "error", JStr("agent down")),
   Intent("task"), D1("intent", None)}

CalendarBodies ==
  {Intent("CALENDAR")}
  \cup {IntentWith("CALENDAR", "cal_resp", c) : c \in
          {EmptyDict, D1("calendar_link", JStr("http://cal/1")),
           D1("html_link", JStr("http://cal/2")),
           D2("calendar_link", JStr(""), "message", JStr("Booked")),
           JStr(CalendarJson), JStr("Meeting booked"), JStr("[]"),
           JList(<<>>), None}}

EmailBodies ==
  {Intent("EMAIL")}
  \cup {IntentWith("EMAIL", "email_resp", e) : e \in
          {D1("brevo_response", D1("messageId", JStr("<m1>"))),
           D1("brevo_response", JStr(BrevoJson)),
           D1("brevo_response", JStr("<m2>")),
           D1("brevo_response", None),
           D1("message", JStr("Queued")),
           JStr("Mail queued"), JList(<<>>)}}

CompletionBodies ==
  {Intent("COMPLETION")}
  \cup {IntentWith("COMPLETION", "xp_resp", x) : x \in
          {JStr("+10 XP"), JStr(LongText), JNum(5),
           D1("xp", JNum(10)), JList(<<JNum(10)>>)}}

ResearchFields ==
  <<"executive_summary", "key_findings", "notable_sources", "recommended_next_steps">>

\* the summary objects whose sections are lists: each section absent or one
\* or two items, named after the section
ListSummaries ==
  {JDict(SelectSeq(
     [i \in 1..4 |-> <<ResearchFields[i],
                       IF i = 1 THEN JList(<<JStr("s1"), JStr("s2")>>)
                       ELSE JList(<<JStr(ResearchFields[i])>>)>>],
     LAMBDA kv : kv[1] \in present)) :
   present \in SUBSET {ResearchFields[i] : i \in 1..4}}

OddSummaries ==
  {D1("executive_summary", JList(<<>>)),
   D1("executive_summary", JStr("")),
   D1("executive_summary", JStr("one line")),
   D1("executive_summary", JStr("[\"a\"]")),
   D1("executive_summary", JStr("[]")),
   D1("executive_summary", JStr("5")),
   D1("key_findings", JNum(5)),
   D1("key_findings", None),
   D1("raw_text", JStr("free text")),
   D2("raw_text", JStr("free text"), "notable_sources", JList(<<JStr("src")>>)),
   JStr(""), JStr("plain text"), JStr(PlainJson), JStr(FindingsJson),
   JStr(FindingsJsonTwice), JStr("{}"), JStr("[]"), None, JList(<<>>)}

ResearchBodies ==
  {Intent("RESEARCH"), IntentWith("RESEARCH", "research_resp", EmptyDict),
   IntentWith("RESEARCH", "research_resp", JStr("failed")),
   IntentWith("RESEARCH", "research_resp", None)}
  \cup {IntentWith("RESEARCH", "research_resp", D1("summary", sm)) :
          sm \in ListSummaries \cup OddSummaries}

Bodies ==
  OtherBodies \cup NoIntentBodies \cup PlainBodies \cup CalendarBodies
  \cup EmailBodies \cup CompletionBodies \cup ResearchBodies

\* what the POST to the parent agent does: it raises, with str(e) = exception,
\* or it yields the decoded body
AgentOutcomes ==
  {[exception |-> e, body |-> None] :
     e \in {"Connection refused", "Read timed out.",
            "Expecting value: line 1 column 1 (char 0)"}}
  \cup {[exception |-> "", body |-> b] : b \in Bodies}

(***************************************************************************)
(* The script.                                                             *)
(***************************************************************************)
Message(role, content) == [role |-> role, content |-> content]

\* a fresh run: the script's own variables are unset, the session state stays
StartRun(input) ==
  /\ pc' = "todo"
  /\ user_input' = input
  /\ tasks_df' = EmptyFrame
  /\ paei_df' = EmptyFrame
  /\ shown' = HeaderElems
  /\ response' = <<>>
  /\ agent_reply' = ""
  /\ error' = ""
  /\ notion_requests' = 0
  /\ notion_res' = NoAnswer
  /\ UNCHANGED <<NOTION_DATABASE_ID, NOTION_API_KEY, messages>>

\* lines 14-16 and 36-38, and the first run of a session
Init ==
  /\ NOTION_DATABASE_ID \in {"", "db1"}
  /\ NOTION_API_KEY \in {"", "secret"}
  /\ messages = <<>>
  /\ pc = "todo"
  /\ user_input = ""
  /\ tasks_df = EmptyFrame
  /\ paei_df = EmptyFrame
  /\ shown = HeaderElems
  /\ response = <<>>
  /\ agent_reply = ""
  /\ error = ""
  /\ notion_requests = 0
  /\ notion_res = NoAnswer

\* lines 93-103
ToDoPanel(answer) ==
  /\ pc = "todo"
  /\ LET r == fetch_notion_tasks(NOTION_DATABASE_ID, NOTION_API_KEY, answer)
         subheader == <<Elem("subheader", "[receipt] To-Do Tasks")>>
     IN /\ notion_requests' = r.requests
        /\ notion_res' = IF r.requests = 0 THEN NoAnswer ELSE answer
        /\ IF Raised(r)
           THEN /\ pc' = "failed"
                /\ error' = r.raised
                /\ shown' = shown \o subheader
                /\ UNCHANGED tasks_df
           ELSE /\ pc' = "chat"
                /\ tasks_df' = r.val
                /\ shown' = shown \o subheader \o TodoElems(r.val)
                /\ UNCHANGED error
  /\ UNCHANGED <<NOTION_DATABASE_ID, NOTION_API_KEY, messages, user_input,
                 paei_df, response, agent_reply>>

\* lines 106-115 when st.chat_input returns nothing
ChatIdle ==
  /\ pc = "chat"
  /\ user_input = ""
  /\ shown' = shown \o ChatElems(messages)
  /\ pc' = "board"
  /\ UNCHANGED <<NOTION_DATABASE_ID, NOTION_API_KEY, messages, user_input,
                 tasks_df, paei_df, response, agent_reply, error,
                 notion_requests, notion_res>>

\* lines 106-215 when st.chat_input returns the submitted text
ChatSubmit(outcome) ==
  /\ pc = "chat"
  /\ user_input # ""
  /\ shown' = shown \o ChatElems(messages)
  /\ LET resp == call_parent_agent(user_input, outcome)
         reply == AgentReply(resp)
         with_user == Append(messages, Message("user", user_input))
     IN /\ response' = <<resp>>
        /\ IF Raised(reply)
           THEN /\ messages' = with_user
                /\ agent_reply' = ""
                /\ error' = reply.raised
                /\ pc' = "failed"
           ELSE /\ messages' = Append(with_user, Message("assistant", reply.val))
                /\ agent_reply' = reply.val
                /\ error' = ""
                /\ pc' = "rerun"
  /\ UNCHANGED <<NOTION_DATABASE_ID, NOTION_API_KEY, user_input, tasks_df,
                 paei_df, notion_requests, notion_res>>

\* st.rerun(), line 215: the script starts over with no input
Rerun ==
  /\ pc = "rerun"
  /\ StartRun("")

\* lines 218-236
Board ==
  /\ pc = "board"
  /\ paei_df' = IF ~IsEmpty(tasks_df) THEN get_paei_stats(tasks_df) ELSE paei_df
  /\ shown' = shown \o BoardElems(tasks_df)
  /\ pc' = "viewer"
  /\ UNCHANGED <<NOTION_DATABASE_ID, NOTION_API_KEY, messages, user_input,
                 tasks_df, response, agent_reply, error, notion_requests,
                 notion_res>>

\* lines 239-245
Viewer ==
  /\ pc = "viewer"
  /\ shown' = shown \o ViewerElems(tasks_df)
  /\ pc' = "done"
  /\ UNCHANGED <<NOTION_DATABASE_ID, NOTION_API_KEY, messages, user_input,
                 tasks_df, paei_df, response, agent_reply, error,
                 notion_requests, notion_res>>

ChatInputShown == \E i \in 1..Len(shown) : shown[i].kind = "chat_input"

\* the user reloads the finished page (no input)
Reload ==
  /\ pc \in {"done", "failed"}
  /\ StartRun("")

\* the user submits a chat message on the finished page, which starts a run
\* whose st.chat_input returns the text
Submit(text) ==
  /\ pc \in {"done", "failed"}
  /\ ChatInputShown
  /\ Len(messages) + 2 <= MaxMessages
  /\ StartRun(text)

Next ==
  \/ \E answer \in NotionAnswers(FewPages, MaxFetched) : ToDoPanel(answer)
  \/ ChatIdle
  \/ \E outcome \in AgentOutcomes : ChatSubmit(outcome)
  \/ Rerun
  \/ Board
  \/ Viewer
  \/ Reload
  \/ \E text \in Inputs : Submit(text)

Spec == Init /\ [][Next]_vars

\* the task panels alone: nobody types into the chat
NextPanels ==
  \/ \E answer \in NotionAnswers(Pages, MaxPages) : ToDoPanel(answer)
  \/ ChatIdle
  \/ Board
  \/ Viewer
  \/ Reload

SpecPanels == Init /\ [][NextPanels]_vars

\* get_paei_stats on its own: a table, then the function applied to it
StatsInputs ==
  {EmptyFrame}
  \cup {DataFrame([i \in 1..Len(r) |-> FlattenPage(r[i])]) :
          r \in SeqsUpTo(Pages, MaxPages)}

InitStats ==
  /\ NOTION_DATABASE_ID = "db1"
  /\ NOTION_API_KEY = "secret"
  /\ messages = <<>>
  /\ pc = "stats"
  /\ user_input = ""
  /\ tasks_df \in StatsInputs
  /\ paei_df = EmptyFrame
  /\ shown = HeaderElems
  /\ response = <<>>
  /\ agent_reply = ""
  /\ error = ""
  /\ notion_requests = 0
  /\ notion_res = NoAnswer

ApplyStats ==
  /\ pc = "stats"
  /\ paei_df' = get_paei_stats(tasks_df)
  /\ pc' = "stats_done"
  /\ UNCHANGED <<NOTION_DATABASE_ID, NOTION_API_KEY, messages, user_input,
                 tasks_df, shown, response, agent_reply, error,
                 notion_requests, notion_res>>

NextStats == ApplyStats

SpecStats == InitStats /\ [][NextStats]_vars

(***************************************************************************)
(* The claims.                                                             *)
(***************************************************************************)
Resp == response[1]
LastMessage == messages[Len(messages)]
Submitted == response # <<>>
HasIntentKey(v) == IsDict(v) /\ HasKey(v, "intent")
IntentOf(v) == Get(v, "intent", None).val

\* C1: after any sequence of chat submissions the history has even length
\* and alternates user, assistant, ..., and the run of a submission appends
\* the input as a user entry and then the reply as an assistant entry,
\* whatever the agent call returned.
C1_UserAssistantPairs ==
  /\ Len(messages) % 2 = 0
  /\ \A i \in 1..Len(messages) :
       messages[i].role = IF i % 2 = 1 THEN "user" ELSE "assistant"
  /\ Submitted =>
       /\ Len(messages) >= 2
       /\ messages[Len(messages) - 1] = Message("user", user_input)
       /\ LastMessage = Message("assistant", agent_reply)

\* C2: whenever the response call_parent_agent returned has no "intent" key,
\* the reply appended to the chat is "[warn] Error: " and the response's
\* error text, or "[warn] Error: Unknown issue" when it has no "error" key.
C2_ErrorReplyWithoutIntent ==
  (Submitted /\ ~HasIntentKey(Resp)) =>
    /\ pc = "rerun"
    /\ LastMessage =
         Message("assistant",
                 "[warn] Error: " \o
                   (IF IsDict(Resp) /\ HasKey(Resp, "error")
                    THEN PyStr(Get(Resp, "error", None).val)
                    ELSE "Unknown issue"))

KnownIntents ==
  {JStr("TASK"), JStr("CALENDAR"), JStr("EMAIL"), JStr("COMPLETION"),
   JStr("RESEARCH")}

\* C3: for a response with an "intent" key, an intent outside TASK, CALENDAR,
\* EMAIL, COMPLETION, RESEARCH is answered "[robot] Processed successfully."
\* and TASK is answered "[ok] Task allocated in Notion.", whatever the other
\* fields of the response are.
C3_DefaultAndTaskReply ==
  (Submitted /\ HasIntentKey(Resp)) =>
    /\ IntentOf(Resp) \notin KnownIntents =>
         /\ pc = "rerun"
         /\ agent_reply = "[robot] Processed successfully."
         /\ LastMessage = Message("assistant", "[robot] Processed successfully.")
    /\ IntentOf(Resp) = JStr("TASK") =>
         /\ pc = "rerun"
         /\ agent_reply = "[ok] Task allocated in Notion."
         /\ LastMessage = Message("assistant", "[ok] Task allocated in Notion.")

\* an unknown intent next to an "error" field was answered with the default
C3_Witness ==
  /\ response = <<IntentWith("CHAT", "error", JStr("agent down"))>>
  /\ pc = "rerun"
  /\ LastMessage.content = "[robot] Processed successfully."

CredsMissing == NOTION_DATABASE_ID = "" \/ NOTION_API_KEY = ""
Not200 ==
  /\ notion_requests = 1
  /\ notion_res.exception = ""
  /\ notion_res.status_code # 200
\* the task panel has run and one of the two cases of C4 holds
FetchedNothing == pc # "todo" /\ (CredsMissing \/ Not200)
\* the run ended with no exception: at the last line, or at st.rerun()
RunEnded == pc \in {"done", "rerun"}

\* C4 as written: with a credential empty no request is sent, and in that
\* case and on a status other than 200 the table is empty, the run shows the
\* three placeholders and a submitted chat message is still processed.
C4_ThreePlaceholdersAndChat ==
  /\ CredsMissing => notion_requests = 0
  /\ (FetchedNothing /\ RunEnded) =>
       /\ IsEmpty(tasks_df)
       /\ Shows("No active tasks found or Notion credentials missing.")
       /\ Shows("No XP data available yet.")
       /\ Shows("No data available to display.")
       /\ user_input # "" => Submitted

\* C4 amended: with a credential empty no request is sent, and in that case
\* and on a status other than 200 the table is empty and the run shows the
\* first placeholder; a run without a chat submission goes on to show the
\* other two, while a run with a submission handles the message (the user
\* entry is appended and the agent is called) and ends there, at st.rerun()
\* or at the handler's exception, before the other two placeholders.
C4_PlaceholdersOrChat ==
  /\ CredsMissing => notion_requests = 0
  /\ FetchedNothing =>
       /\ IsEmpty(tasks_df)
       /\ Shows("No active tasks found or Notion credentials missing.")
       /\ pc = "done" =>
            /\ user_input = ""
            /\ Shows("No XP data available yet.")
            /\ Shows("No data available to display.")
       /\ (user_input # "" /\ pc # "chat") =>
            /\ pc \in {"rerun", "failed"}
            /\ Submitted
            /\ \E i \in {Len(messages) - 1, Len(messages)} :
                 /\ i >= 1
                 /\ messages[i] = Message("user", user_input)
            /\ ~Shows("No XP data available yet.")
            /\ ~Shows("No data available to display.")

\* a message was submitted and answered in a run whose fetch sent no request
C4_Witness ==
  /\ CredsMissing
  /\ pc = "rerun"
  /\ user_input # ""
  /\ agent_reply # ""
  /\ Shows("No active tasks found or Notion credentials missing.")

SevenColumns ==
  {"Task", "PAEI Role", "XP", "Status", "Due Date", "Calendar Link", "Email Link"}

Got200 ==
  /\ pc # "todo"
  /\ notion_requests = 1
  /\ notion_res.exception = ""
  /\ notion_res.status_code = 200

C6_TotalIsSumOfAllTasks ==
  (pc \in {"viewer", "done"} /\ ~IsEmpty(tasks_df)) =>
    \E i \in 1..Len(shown) :
      shown[i] = Elem("metric", ToString(SumXP(tasks_df.rows)) \o " XP")

RECURSIVE XpOfRole(_, _)
\* the XP of the rows whose role is the given one, added up
XpOfRole(rows, role) ==
  IF rows = <<>> THEN 0
  ELSE (IF rows[1]["PAEI Role"] = role THEN rows[1]["XP"] ELSE 0)
       + XpOfRole(Tail(rows), role)

\* C7: for a non-empty table get_paei_stats has four rows, Producer,
\* Administrator, Entrepreneur, Integrator in that order, each with the sum
\* of the XP of the tasks of that role (0 when there is none); for an empty
\* table it has no rows and the columns PAEI Role and XP.
C7_FourRolesInOrder ==
  pc = "stats_done" =>
    /\ paei_df.columns = <<"PAEI Role", "XP">>
    /\ IF IsEmpty(tasks_df)
       THEN paei_df.rows = <<>>
       ELSE /\ Len(paei_df.rows) = 4
            /\ \A i \in 1..4 :
                 LET role == <<"Producer", "Administrator", "Entrepreneur",
                               "Integrator">>[i]
                 IN /\ paei_df.rows[i]["PAEI Role"] = role
                    /\ paei_df.rows[i]["XP"] = XpOfRole(tasks_df.rows, role)

\* two Producer tasks of 5 and 3 XP, no Administrator task
C7_Witness ==
  /\ pc = "stats_done"
  /\ Len(tasks_df.rows) = 2
  /\ tasks_df.rows[1]["XP"] = 5
  /\ tasks_df.rows[2]["XP"] = 3
  /\ Len(paei_df.rows) = 4
  /\ paei_df.rows[1]["XP"] = 8
  /\ paei_df.rows[2]["XP"] = 0

IsResearch == Submitted /\ HasIntentKey(Resp) /\ IntentOf(Resp) = JStr("RESEARCH")
C8_ResearchResp == Get(Resp, "research_resp", EmptyDict).val
C8_RawSummary == Get(C8_ResearchResp, "summary", EmptyDict).val
C8_Titles ==
  <<"**Executive Summary:**\n", "**Key Findings:**\n", "**Sources:**\n",
    "**Recommended Next Steps:**\n">>
C8_Listed(i) == IsSubstring(C8_Titles[i], agent_reply)

\* the summary of C8 as written: decoded as JSON at most twice, while it is
\* a string that is valid JSON
C8_ClaimedSummary ==
  LET d0 == C8_RawSummary
      r1 == json_loads(d0.s)
      r2 == json_loads(r1.val.s)
  IN IF ~IsStr(d0) \/ Raised(r1) THEN d0
     ELSE IF ~IsStr(r1.val) \/ Raised(r2) THEN r1.val
     ELSE r2.val
C8_ClaimedField(i) ==
  IF IsDict(C8_ClaimedSummary)
  THEN Get(C8_ClaimedSummary, ResearchFields[i], JList(<<>>)).val
  ELSE JList(<<>>)


\* C8 as written, for the submissions that were answered: if one of the four
\* sections of the decoded summary is non-empty the reply is the "[books]"
\* text listing exactly the non-empty sections; otherwise, if the summary
\* (as sent, or as decoded so far) was a string that is not valid JSON, it
\* is "[book] **Research Summary:**" and that string; otherwise it is the
\* "no detailed summary" text.
C8_ThreeWayFallback ==
  (IsResearch /\ pc = "rerun") =>
    IF \E i \in 1..4 : Truthy(C8_ClaimedField(i))
    THEN /\ SubSeq(agent_reply, 1, 7) = "[books]"
         /\ \A i \in 1..4 : C8_Listed(i) <=> Truthy(C8_ClaimedField(i))
    ELSE IF IsStr(C8_ClaimedSummary)
    THEN agent_reply = "[book] **Research Summary:**\n\n" \o C8_ClaimedSummary.s
    ELSE agent_reply =
           "[book] Research completed successfully, but no detailed summary was found."

\* the summary and the sections as the handler reads them
C8_Data == DecodeSummary(C8_RawSummary)
C8_Field(i) == NormalizeField(Get(C8_Data, ResearchFields[i], JList(<<>>)).val)
C8_RawText == Get(C8_Data, "raw_text", JStr("")).val
C8_Part(i) ==
  IF ~Truthy(C8_Field(i)) THEN ""
  ELSE LET items == Iter(C8_Field(i)).val
       IN C8_Titles[i]
          \o Join("\n", [j \in 1..Len(items) |-> "- " \o PyStr(items[j])])
          \o (IF i < 4 THEN "\n\n" ELSE "")
\* the handler raises: research_resp or the decoded summary is no object, or
\* a section to list cannot be iterated
C8_Unanswerable ==
  \/ ~IsDict(C8_ResearchResp)
  \/ ~IsDict(C8_Data)
  \/ \E i \in 1..4 : Truthy(C8_Field(i)) /\ Raised(Iter(C8_Field(i)))
C8_Expected ==
  IF \E i \in 1..4 : Truthy(C8_Field(i))
  THEN "[books] **Research Summary:**\n\n"
       \o C8_Part(1) \o C8_Part(2) \o C8_Part(3) \o C8_Part(4)
  ELSE IF Truthy(C8_RawText)
  THEN "[book] **Research Summary:**\n\n" \o PyStr(C8_RawText)
  ELSE "[book] Research completed successfully, but no detailed summary was found."

\* C8 amended: a section that is a string is first decoded as JSON, or kept
\* as a one-item list when it is not JSON; if a section is then non-empty
\* the reply is the "[books]" text listing exactly the non-empty sections in
\* order; otherwise, if raw_text is non-empty, where raw_text is the
\* summary's own "raw_text" entry or, for a summary that is a string, the
\* string whose JSON decoding failed, the reply is "[book] **Research
\* Summary:**" and raw_text; otherwise it is the "no detailed summary" text.
\* No reply is appended when research_resp or the decoded summary is no
\* object or a non-empty section cannot be iterated.
C8_SectionsThenRawText ==
  IsResearch =>
    IF C8_Unanswerable
    THEN pc = "failed" /\ agent_reply = "" /\ LastMessage.role = "user"
    ELSE /\ pc = "rerun"
         /\ agent_reply = C8_Expected
         /\ LastMessage = Message("assistant", C8_Expected)

\* a summary that is the JSON encoding of a plain text was shown as raw text
C8_Witness ==
  /\ IsResearch
  /\ pc = "rerun"
  /\ C8_RawSummary = JStr(PlainJson)
  /\ agent_reply = "[book] **Research Summary:**\n\nplain text"

====
